---- MODULE Spec2Model ----
(***************************************************************************)
(* Model of go/user_handler.go: the request handlers getIconHandler,       *)
(* postIconHandler, getMeHandler, getUserHandler and registerHandler, the  *)
(* shared helper fillUserResponse, the session check verifyUserSession,    *)
(* and the three process-wide caches with their RWMutexes.                 *)
(*                                                                         *)
(* Every handler runs in one of the request slots of Procs.  One action is *)
(* one database statement, one lock acquisition, or one map operation      *)
(* together with the unlock that follows it.  A statement of a transaction *)
(* reads the rows committed at the moment it executes plus the rows the    *)
(* transaction wrote itself.                                               *)
(***************************************************************************)
EXTENDS Integers, Sequences, FiniteSets, TLC

(* ---------------- bounds of the model ---------------- *)
MaxUserID == 2
MaxImage == 2
MaxRequests == 3
MaxTime == 2

Procs == {1, 2}
UserIDs == 1..MaxUserID
Images == 1..MaxImage
Names == {"pipe", "a", "b"}
LookupNames == {"a", "b"}

(* bytes of ../img/NoImage.jpg; no uploaded image equals them *)
FallbackBytes == 0

(* ---------------- pure helpers ---------------- *)

(* a character of a header value that is not a hex digit: the double quote *)
QuoteChar == 34

(* fmt.Sprintf("%x", sha256.Sum256(image)): a string of hex digits, here    *)
(* two digits long; injective on the images of the model.                   *)
HashDigits(image) == << (image * 5 + 3) % 16, (image * 11 + 7) % 16 >>

(* the ETag header a client sends back: the hash between double quotes *)
Quoted(hash) == <<QuoteChar>> \o hash \o <<QuoteChar>>

(* ifNoneMatch[1 : len(ifNoneMatch)-1] *)
TrimQuotes(s) == SubSeq(s, 2, Len(s) - 1)

(* map operations *)
Put(m, k, v) == [x \in (DOMAIN m) \cup {k} |-> IF x = k THEN v ELSE m[x]]
Delete(m, k) == [x \in (DOMAIN m) \ {k} |-> m[x]]
EmptyMap == [x \in {} |-> 0]

(* sync.RWMutex *)
FreeMutex == [w |-> 0, r |-> {}]
CanRLock(mu) == mu.w = 0
CanLock(mu) == mu.w = 0 /\ mu.r = {}
RLock(mu, p) == [mu EXCEPT !.r = @ \cup {p}]
RUnlock(mu, p) == [mu EXCEPT !.r = @ \ {p}]
Lock(mu, p) == [mu EXCEPT !.w = p]
Unlock(mu, p) == [mu EXCEPT !.w = 0]

(* Go zero values of the structs *)
ZeroUserModel == [ID |-> 0, Name |-> "", DisplayName |-> "", Description |-> "",
                  HashedPassword |-> ""]
ZeroThemeModel == [ID |-> 0, UserID |-> 0, DarkMode |-> FALSE]
ZeroUser == [ID |-> 0, Name |-> "", DisplayName |-> "", Description |-> "",
             Theme |-> [ID |-> 0, DarkMode |-> FALSE], IconHash |-> <<>>]
NoResp == [status |-> 0, message |-> ""]

(* session.Get and the values a session carries.  getErr: session.Get      *)
(* failed; hasExpires / hasUserID: the key is present (USERID as int64).   *)
Session(getErr, hasExpires, hasUserID, expires, userID) ==
    [getErr |-> getErr, hasExpires |-> hasExpires, hasUserID |-> hasUserID,
     expires |-> expires, userID |-> userID]

(* net/http: the statuses verifyUserSession rejects with *)
StatusUnauthorized == 401
StatusForbidden == 403

(* a request without a session cookie: session.Get hands out a new, empty *)
(* session                                                                *)
NoSession == Session(FALSE, FALSE, FALSE, 0, 0)

(* verifyUserSession that already rejects in the second of the expiry *)
verifyUserSession_StrictExpiry(sess, now) ==
    IF sess.getErr THEN 401
    ELSE IF ~sess.hasExpires THEN 403
    ELSE IF ~sess.hasUserID THEN 401
    ELSE IF now >= sess.expires THEN 401
    ELSE 0

(* verifyUserSession: 0 stands for nil, otherwise the HTTP status *)
verifyUserSession(sess, now) ==
    IF sess.getErr THEN StatusUnauthorized
    ELSE IF ~sess.hasExpires THEN StatusForbidden
    ELSE IF ~sess.hasUserID THEN StatusUnauthorized
    ELSE IF now > sess.expires THEN StatusUnauthorized
    ELSE 0

VARIABLES
    users,          \* committed rows of table users, by id
    themes,         \* committed rows of table themes, by user_id
    icons,          \* committed rows of table icons: user_id -> image
    committedIcons, \* history: per user, the images any committed icons row held
    nextUserID,     \* AUTO_INCREMENT of users
    nextThemeID,    \* AUTO_INCREMENT of themes
    dnsRecords,     \* names registered at the PowerDNS server
    UserByIDCache,
    IconHashByUserIDCache,
    IconHashByUsernameCache,
    UserByIDCacheMutex,
    IconHashByUserIDCacheMutex,
    IconHashByUsernameCacheMutex,
    loc,            \* per request slot: position, locals, transaction, response
    siblingCalls,   \* per request slot: sibling invalidations the request made
    started,        \* number of requests started so far
    staleFor        \* history: per user, writers whose commit the current UserByIDCache entry predates

dbVars == <<users, themes, icons, committedIcons, nextUserID, nextThemeID, dnsRecords>>
cacheVars == <<UserByIDCache, IconHashByUserIDCache, IconHashByUsernameCache>>
mutexVars == <<UserByIDCacheMutex, IconHashByUserIDCacheMutex, IconHashByUsernameCacheMutex>>
vars == <<dbVars, cacheVars, mutexVars, loc, siblingCalls, started, staleFor>>

(* the locals of a request that has not started or has returned *)
IdleLoc == [pc |-> "idle", kind |-> "none", tx |-> "none",
            username |-> "", ifNoneMatch |-> <<>>, userID |-> 0,
            image |-> FallbackBytes, darkMode |-> FALSE,
            userModel |-> ZeroUserModel, themeModel |-> ZeroThemeModel,
            hashStr |-> <<>>, ok |-> FALSE, isFallbackImage |-> FALSE,
            user |-> ZeroUser, hit |-> FALSE, iconLock |-> FALSE,
            nameLock |-> FALSE, afterInvalidation |-> FALSE, committedSince |-> {},
            pendingTheme |-> ZeroThemeModel, sess |-> NoSession, now |-> 0,
            resp |-> NoResp]

(* the rows the database holds when the process starts: one registered   *)
(* user, with or without an uploaded icon; the caches start empty.        *)
SeedUser == [ID |-> 1, Name |-> "a", DisplayName |-> "A", Description |-> "a",
             HashedPassword |-> "bcrypt"]
SeedTheme == [ID |-> 1, UserID |-> 1, DarkMode |-> FALSE]

Init ==
    /\ users = [id \in {1} |-> SeedUser]
    /\ themes = [id \in {1} |-> SeedTheme]
    /\ icons \in {EmptyMap, [id \in {1} |-> 1]}
    /\ committedIcons = [u \in UserIDs |-> IF u \in DOMAIN icons THEN {icons[u]} ELSE {}]
    /\ nextUserID = 2
    /\ nextThemeID = 2
    /\ dnsRecords = {"a"}
    /\ UserByIDCache = EmptyMap
    /\ IconHashByUserIDCache = EmptyMap
    /\ IconHashByUsernameCache = EmptyMap
    /\ UserByIDCacheMutex = FreeMutex
    /\ IconHashByUserIDCacheMutex = FreeMutex
    /\ IconHashByUsernameCacheMutex = FreeMutex
    /\ loc = [p \in Procs |-> IdleLoc]
    /\ siblingCalls = [p \in Procs |-> <<>>]
    /\ started = 0
    /\ staleFor = [u \in UserIDs |-> {}]

(* ---------------- request plumbing ---------------- *)

pcOf(p) == loc[p].pc

(* a handler without defer tx.Rollback() *)
Returned_NoRollback(l, status) ==
    [IdleLoc EXCEPT !.kind = l.kind,
                    !.tx = l.tx,
                    !.userID = l.userID,
                    !.username = IF l.kind = "register" THEN l.username ELSE "",
                    !.resp = [status |-> status, message |-> ""]]

(* a handler returns: the status of the response is recorded (the body is *)
(* the local user or image at that moment), the deferred tx.Rollback()    *)
(* ends a transaction that is still open and releases its row locks, and  *)
(* the locals go away.  The name of a registration stays visible.         *)
Returned(l, status) ==
    [IdleLoc EXCEPT !.kind = l.kind,
                    !.tx = IF l.tx = "open" THEN "rolledback" ELSE l.tx,
                    !.userID = l.userID,
                    !.username = IF l.kind = "register" THEN l.username ELSE "",
                    !.resp = [status |-> status, message |-> ""]]

Return(p, status) ==
    loc' = [loc EXCEPT ![p] = Returned(loc[p], status)]

ReturnError(p, status) == Return(p, status)

Goto(p, pc) == loc' = [loc EXCEPT ![p].pc = pc]

(* dbConn.BeginTxx succeeded: the request continues at pc *)
TxBegun(l, pc) == [l EXCEPT !.pc = pc, !.tx = "open"]

(* history: a writer has committed and not yet deleted its UserByIDCache entry *)
InvalidationPending ==
    \E q \in Procs : loc[q].pc \in {"pi_lock", "pi_del", "rg_lock", "rg_del"}

(* slot p takes the next request: the lowest free slot does *)
CanBegin(p) ==
    /\ loc[p].pc = "idle"
    /\ \A q \in Procs : q < p => loc[q].pc # "idle"
    /\ started < MaxRequests

(* a new request enters slot p with the locals l *)
Begin(p, l) ==
    /\ started' = started + 1
    /\ loc' = [loc EXCEPT ![p] = IF l.pc = "idle" THEN l
                                 ELSE [l EXCEPT !.afterInvalidation = ~InvalidationPending]]
    /\ siblingCalls' = [siblingCalls EXCEPT ![p] = <<>>]
    /\ staleFor' = [u \in UserIDs |-> staleFor[u] \ {p}]
    /\ UNCHANGED <<dbVars, cacheVars, mutexVars>>

(* the sessions a request can carry: none, a broken cookie, a session     *)
(* without the login values, and the session loginHandler issued to a     *)
(* registered user, still valid or expired.                               *)
SessionInputs ==
    {Session(TRUE, FALSE, FALSE, 0, 0), Session(FALSE, FALSE, FALSE, 0, 0),
     Session(FALSE, TRUE, FALSE, 1, 0)}
    \cup {Session(FALSE, TRUE, TRUE, e, u) : e \in 0..2, u \in DOMAIN users}

(* ---------------- getIconHandler ---------------- *)

IfNoneMatchInputs == {<<>>} \cup {Quoted(HashDigits(i)) : i \in Images}

(* the request arrives; without If-None-Match the handler goes straight to *)
(* dbConn.BeginTxx                                                        *)
StartGetIcon(p) ==
    /\ CanBegin(p)
    /\ \E username \in LookupNames, ifNoneMatch \in IfNoneMatchInputs, beginErr \in BOOLEAN :
        LET l == [IdleLoc EXCEPT !.kind = "getIcon", !.username = username,
                                 !.ifNoneMatch = ifNoneMatch] IN
        IF ifNoneMatch # <<>> THEN (~beginErr /\ Begin(p, [l EXCEPT !.pc = "gi_rlock"]))
        ELSE IF beginErr THEN Begin(p, Returned(l, 500))
        ELSE Begin(p, TxBegun(l, "gi_user"))


GetIconRLock(p) ==
    /\ pcOf(p) = "gi_rlock"
    /\ CanRLock(IconHashByUsernameCacheMutex)
    /\ IconHashByUsernameCacheMutex' = RLock(IconHashByUsernameCacheMutex, p)
    /\ Goto(p, "gi_check")
    /\ UNCHANGED <<dbVars, cacheVars, UserByIDCacheMutex, IconHashByUserIDCacheMutex,
                   siblingCalls, started, staleFor>>

(* line 98: the cached hash of the username equals the trimmed header *)
GetIconNotModified(l) ==
    /\ l.username \in DOMAIN IconHashByUsernameCache
    /\ IconHashByUsernameCache[l.username] = TrimQuotes(l.ifNoneMatch)

(* lines 98-108: the cache check, and on a mismatch dbConn.BeginTxx *)
GetIconCheck(p) ==
    /\ pcOf(p) = "gi_check"
    /\ IconHashByUsernameCacheMutex' = RUnlock(IconHashByUsernameCacheMutex, p)
    /\ \E beginErr \in BOOLEAN :
        IF GetIconNotModified(loc[p])
        THEN ~beginErr /\ ReturnError(p, 304)
        ELSE IF beginErr THEN ReturnError(p, 500)
        ELSE loc' = [loc EXCEPT ![p] = TxBegun(loc[p], "gi_user")]
    /\ UNCHANGED <<dbVars, cacheVars, UserByIDCacheMutex, IconHashByUserIDCacheMutex,
                   siblingCalls, started, staleFor>>

(* SELECT * FROM users WHERE name = ? *)
UserByName(name) ==
    IF \E id \in DOMAIN users : users[id].Name = name
    THEN users[CHOOSE id \in DOMAIN users : users[id].Name = name]
    ELSE ZeroUserModel

GetIconSelectUser(p) ==
    /\ pcOf(p) = "gi_user"
    /\ \E err \in BOOLEAN :
        IF err THEN ReturnError(p, 500)
        ELSE IF UserByName(loc[p].username).ID = 0 THEN ReturnError(p, 404)
        ELSE loc' = [loc EXCEPT ![p].pc = "gi_icon",
                                ![p].userModel = UserByName(loc[p].username)]
    /\ UNCHANGED <<dbVars, cacheVars, mutexVars, siblingCalls, started, staleFor>>

(* getIconHandler that goes on to the cache writes after serving the     *)
(* fallback image                                                         *)
GetIconSelectIcon_CachesFallback(p) ==
    /\ pcOf(p) = "gi_icon"
    /\ \E err \in BOOLEAN :
        LET id == loc[p].userModel.ID IN
        IF err THEN ReturnError(p, 500)
        ELSE IF id \notin DOMAIN icons
        THEN loc' = [loc EXCEPT ![p].pc = "gi_lock_name",
                                ![p].image = FallbackBytes,
                                ![p].hashStr = HashDigits(FallbackBytes)]
        ELSE loc' = [loc EXCEPT ![p].pc = "gi_lock_name",
                                ![p].image = icons[id],
                                ![p].hashStr = HashDigits(icons[id])]
    /\ UNCHANGED <<dbVars, cacheVars, mutexVars, siblingCalls, started, staleFor>>

(* lines 119-128 *)
GetIconSelectIcon(p) ==
    /\ pcOf(p) = "gi_icon"
    /\ \E err \in BOOLEAN :
        LET id == loc[p].userModel.ID IN
        IF err THEN ReturnError(p, 500)
        ELSE IF id \notin DOMAIN icons
        THEN Return(p, 200)
        ELSE loc' = [loc EXCEPT ![p].pc = "gi_lock_name",
                                ![p].image = icons[id],
                                ![p].hashStr = HashDigits(icons[id])]
    /\ UNCHANGED <<dbVars, cacheVars, mutexVars, siblingCalls, started, staleFor>>

GetIconLockName(p) ==
    /\ pcOf(p) = "gi_lock_name"
    /\ CanLock(IconHashByUsernameCacheMutex)
    /\ IconHashByUsernameCacheMutex' = Lock(IconHashByUsernameCacheMutex, p)
    /\ Goto(p, "gi_put_name")
    /\ UNCHANGED <<dbVars, cacheVars, UserByIDCacheMutex, IconHashByUserIDCacheMutex,
                   siblingCalls, started, staleFor>>

(* getIconHandler that goes on to the second map without Unlock *)
GetIconPutName_NoUnlock(p) ==
    /\ pcOf(p) = "gi_put_name"
    /\ IconHashByUsernameCache' = Put(IconHashByUsernameCache, loc[p].username, loc[p].hashStr)
    /\ Goto(p, "gi_lock_id")
    /\ UNCHANGED <<dbVars, UserByIDCache, IconHashByUserIDCache, mutexVars,
                   siblingCalls, started, staleFor>>

(* lines 129-131 *)
GetIconPutName(p) ==
    /\ pcOf(p) = "gi_put_name"
    /\ IconHashByUsernameCache' = Put(IconHashByUsernameCache, loc[p].username, loc[p].hashStr)
    /\ IconHashByUsernameCacheMutex' = Unlock(IconHashByUsernameCacheMutex, p)
    /\ Goto(p, "gi_lock_id")
    /\ UNCHANGED <<dbVars, UserByIDCache, IconHashByUserIDCache, UserByIDCacheMutex,
                   IconHashByUserIDCacheMutex, siblingCalls, started, staleFor>>

GetIconLockID(p) ==
    /\ pcOf(p) = "gi_lock_id"
    /\ CanLock(IconHashByUserIDCacheMutex)
    /\ IconHashByUserIDCacheMutex' = Lock(IconHashByUserIDCacheMutex, p)
    /\ Goto(p, "gi_put_id")
    /\ UNCHANGED <<dbVars, cacheVars, UserByIDCacheMutex, IconHashByUsernameCacheMutex,
                   siblingCalls, started, staleFor>>

GetIconPutID(p) ==
    /\ pcOf(p) = "gi_put_id"
    /\ IconHashByUserIDCache' = Put(IconHashByUserIDCache, loc[p].userModel.ID, loc[p].hashStr)
    /\ IconHashByUserIDCacheMutex' = Unlock(IconHashByUserIDCacheMutex, p)
    /\ Return(p, 200)
    /\ UNCHANGED <<dbVars, UserByIDCache, IconHashByUsernameCache, UserByIDCacheMutex,
                   IconHashByUsernameCacheMutex, siblingCalls, started, staleFor>>

(* ---------------- postIconHandler ---------------- *)

(* lines 142-161: session check, body decoding, dbConn.BeginTxx *)
StartPostIcon(p) ==
    /\ CanBegin(p)
    /\ \E sess \in SessionInputs, now \in {1}, image \in Images,
       err \in {"none", "decode", "begin"} :
        LET l == [IdleLoc EXCEPT !.kind = "postIcon"] IN
        IF verifyUserSession(sess, now) # 0
        THEN err = "none" /\ Begin(p, Returned(l, verifyUserSession(sess, now)))
        ELSE IF err = "decode"
        THEN Begin(p, Returned([l EXCEPT !.userID = sess.userID], 400))
        ELSE IF err = "begin"
        THEN Begin(p, Returned([l EXCEPT !.userID = sess.userID], 500))
        ELSE Begin(p, TxBegun([l EXCEPT !.userID = sess.userID, !.image = image], "pi_delete"))

(* DELETE FROM icons WHERE user_id = ?: the statement waits while another  *)
(* open transaction holds the write lock on the icon rows of the user.     *)
PostIconDelete(p) ==
    /\ pcOf(p) = "pi_delete"
    /\ \A q \in Procs \ {p} : ~(loc[q].iconLock /\ loc[q].userID = loc[p].userID)
    /\ \E err \in BOOLEAN :
        IF err THEN ReturnError(p, 500)
        ELSE loc' = [loc EXCEPT ![p].pc = "pi_insert", ![p].iconLock = TRUE]
    /\ UNCHANGED <<dbVars, cacheVars, mutexVars, siblingCalls, started, staleFor>>

(* INSERT INTO icons and rs.LastInsertId() *)
PostIconInsert(p) ==
    /\ pcOf(p) = "pi_insert"
    /\ \E err \in {"none", "exec", "lastInsertId"} :
        IF err # "none" THEN ReturnError(p, 500)
        ELSE Goto(p, "pi_commit")
    /\ UNCHANGED <<dbVars, cacheVars, mutexVars, siblingCalls, started, staleFor>>

(* history: the entry UserByIDCache holds for id predates the commit of p *)
EntryPredates(p, id) ==
    IF id \in DOMAIN UserByIDCache
    THEN [staleFor EXCEPT ![id] = @ \cup {p}]
    ELSE staleFor

(* history: every running read request has seen a commit of the icon of id *)
IconCommitted(l, id) ==
    [q \in Procs |-> IF l[q].pc # "idle" /\ l[q].kind \in {"getMe", "getUser", "getIcon"}
                     THEN [l[q] EXCEPT !.committedSince = @ \cup {id}]
                     ELSE l[q]]

(* postIconHandler that goes on to the invalidation when tx.Commit failed *)
PostIconCommit_IgnoringError(p) ==
    /\ pcOf(p) = "pi_commit"
    /\ \E err \in BOOLEAN :
        IF err
        THEN /\ Goto(p, "pi_lock")
             /\ UNCHANGED <<icons, committedIcons, staleFor>>
        ELSE /\ icons' = Put(icons, loc[p].userID, loc[p].image)
             /\ committedIcons' = [committedIcons EXCEPT ![loc[p].userID] = @ \cup {loc[p].image}]
             /\ loc' = IconCommitted([loc EXCEPT ![p].pc = "pi_lock", ![p].tx = "committed",
                                                 ![p].iconLock = FALSE], loc[p].userID)
             /\ staleFor' = EntryPredates(p, loc[p].userID)
    /\ UNCHANGED <<users, themes, nextUserID, nextThemeID, dnsRecords,
                   cacheVars, mutexVars, siblingCalls, started>>

PostIconCommit(p) ==
    /\ pcOf(p) = "pi_commit"
    /\ \E err \in BOOLEAN :
        IF err
        THEN /\ ReturnError(p, 500)
             /\ UNCHANGED <<icons, committedIcons, staleFor>>
        ELSE /\ icons' = Put(icons, loc[p].userID, loc[p].image)
             /\ committedIcons' = [committedIcons EXCEPT ![loc[p].userID] = @ \cup {loc[p].image}]
             /\ loc' = IconCommitted([loc EXCEPT ![p].pc = "pi_lock", ![p].tx = "committed",
                                                 ![p].iconLock = FALSE], loc[p].userID)
             /\ staleFor' = EntryPredates(p, loc[p].userID)
    /\ UNCHANGED <<users, themes, nextUserID, nextThemeID, dnsRecords,
                   cacheVars, mutexVars, siblingCalls, started>>

PostIconLock(p) ==
    /\ pcOf(p) = "pi_lock"
    /\ CanLock(UserByIDCacheMutex)
    /\ UserByIDCacheMutex' = Lock(UserByIDCacheMutex, p)
    /\ Goto(p, "pi_del")
    /\ UNCHANGED <<dbVars, cacheVars, IconHashByUserIDCacheMutex, IconHashByUsernameCacheMutex,
                   siblingCalls, started, staleFor>>

(* postIconHandler that also drops the icon hashes of the user *)
PostIconDeleteCache_AllCaches(p) ==
    /\ pcOf(p) = "pi_del"
    /\ UserByIDCache' = Delete(UserByIDCache, loc[p].userID)
    /\ IconHashByUserIDCache' = Delete(IconHashByUserIDCache, loc[p].userID)
    /\ IconHashByUsernameCache' = Delete(IconHashByUsernameCache, users[loc[p].userID].Name)
    /\ UserByIDCacheMutex' = Unlock(UserByIDCacheMutex, p)
    /\ staleFor' = [staleFor EXCEPT ![loc[p].userID] = {}]
    /\ Goto(p, "pi_siblings")
    /\ UNCHANGED <<dbVars, IconHashByUserIDCacheMutex, IconHashByUsernameCacheMutex,
                   siblingCalls, started>>

(* lines 181-183 *)
PostIconDeleteCache(p) ==
    /\ pcOf(p) = "pi_del"
    /\ UserByIDCache' = Delete(UserByIDCache, loc[p].userID)
    /\ UserByIDCacheMutex' = Unlock(UserByIDCacheMutex, p)
    /\ staleFor' = [staleFor EXCEPT ![loc[p].userID] = {}]
    /\ Goto(p, "pi_siblings")
    /\ UNCHANGED <<dbVars, IconHashByUserIDCache, IconHashByUsernameCache,
                   IconHashByUserIDCacheMutex, IconHashByUsernameCacheMutex,
                   siblingCalls, started>>

(* lines 184-189: deleteLivestreamByIDCacheByOwnerID(userID),             *)
(* deleteLivecommentByIDCacheByOwnerID(userID), then the 201 response     *)
InvalidateSiblings(calls, userID) ==
    calls \o << <<"livestream", userID>>, <<"livecomment", userID>> >>

PostIconInvalidateSiblings(p) ==
    /\ pcOf(p) = "pi_siblings"
    /\ siblingCalls' = [siblingCalls EXCEPT ![p] = InvalidateSiblings(@, loc[p].userID)]
    /\ Return(p, 201)
    /\ UNCHANGED <<dbVars, cacheVars, mutexVars, started, staleFor>>

(* ---------------- fillUserResponse ---------------- *)

(* where the caller continues after fillUserResponse returned a user *)
AfterFill(kind) ==
    IF kind = "getMe" THEN "gm_commit"
    ELSE IF kind = "getUser" THEN "gu_commit"
    ELSE "rg_commit"

FillRLock(p) ==
    /\ pcOf(p) = "fu_rlock"
    /\ CanRLock(UserByIDCacheMutex)
    /\ UserByIDCacheMutex' = RLock(UserByIDCacheMutex, p)
    /\ Goto(p, "fu_check")
    /\ UNCHANGED <<dbVars, cacheVars, IconHashByUserIDCacheMutex, IconHashByUsernameCacheMutex,
                   siblingCalls, started, staleFor>>

(* fillUserResponse that does not return on a hit but assembles again *)
FillCheck_NoShortCircuit(p) ==
    /\ pcOf(p) = "fu_check"
    /\ UserByIDCacheMutex' = RUnlock(UserByIDCacheMutex, p)
    /\ Goto(p, "fu_theme")
    /\ UNCHANGED <<dbVars, cacheVars, IconHashByUserIDCacheMutex, IconHashByUsernameCacheMutex,
                   siblingCalls, started, staleFor>>

(* lines 455-459: a hit returns the cached user at once *)
FillCheck(p) ==
    /\ pcOf(p) = "fu_check"
    /\ UserByIDCacheMutex' = RUnlock(UserByIDCacheMutex, p)
    /\ IF loc[p].userModel.ID \in DOMAIN UserByIDCache
       THEN loc' = [loc EXCEPT ![p].pc = AfterFill(loc[p].kind),
                               ![p].user = UserByIDCache[loc[p].userModel.ID],
                               ![p].hit = TRUE]
       ELSE Goto(p, "fu_theme")
    /\ UNCHANGED <<dbVars, cacheVars, IconHashByUserIDCacheMutex, IconHashByUsernameCacheMutex,
                   siblingCalls, started, staleFor>>

(* fillUserResponse that stores its result in UserByIDCache also when it *)
(* fails                                                                  *)
FillFailed_StoresResult(p) ==
    /\ loc' = [loc EXCEPT ![p] = [Returned(loc[p], 500)
                                    EXCEPT !.resp.message = "failed to fill user"]]
    /\ UserByIDCache' = Put(UserByIDCache, loc[p].userModel.ID, loc[p].user)
    /\ UNCHANGED <<IconHashByUserIDCache, IconHashByUsernameCache>>

(* fillUserResponse returns User{} and an error, and the handler answers  *)
(* 500 "failed to fill user: ..." (lines 220-223, 309-312, 417-420)       *)
FillFailed(p) ==
    /\ loc' = [loc EXCEPT ![p] = [Returned(loc[p], 500)
                                    EXCEPT !.resp.message = "failed to fill user"]]
    /\ UNCHANGED cacheVars

(* SELECT * FROM themes WHERE user_id = ? as transaction p sees it *)
ThemeRow(p, id) ==
    IF loc[p].pendingTheme.UserID = id THEN loc[p].pendingTheme
    ELSE IF id \in DOMAIN themes THEN themes[id]
    ELSE ZeroThemeModel

FillSelectTheme(p) ==
    /\ pcOf(p) = "fu_theme"
    /\ \E err \in BOOLEAN :
        IF err \/ ThemeRow(p, loc[p].userModel.ID).ID = 0
        THEN FillFailed(p)
        ELSE /\ loc' = [loc EXCEPT ![p].pc = "fu_hash_rlock",
                                   ![p].themeModel = ThemeRow(p, loc[p].userModel.ID)]
             /\ UNCHANGED cacheVars
    /\ UNCHANGED <<dbVars, mutexVars, siblingCalls, started, staleFor>>

FillHashRLock(p) ==
    /\ pcOf(p) = "fu_hash_rlock"
    /\ CanRLock(IconHashByUserIDCacheMutex)
    /\ IconHashByUserIDCacheMutex' = RLock(IconHashByUserIDCacheMutex, p)
    /\ Goto(p, "fu_hash_get")
    /\ UNCHANGED <<dbVars, cacheVars, UserByIDCacheMutex, IconHashByUsernameCacheMutex,
                   siblingCalls, started, staleFor>>

(* fillUserResponse that returns from the lookup without RUnlock *)
FillHashGet_KeepsRLock(p) ==
    /\ pcOf(p) = "fu_hash_get"
    /\ IF loc[p].userModel.ID \in DOMAIN IconHashByUserIDCache
       THEN loc' = [loc EXCEPT ![p].pc = "fu_hash_lock", ![p].ok = TRUE,
                               ![p].hashStr = IconHashByUserIDCache[loc[p].userModel.ID]]
       ELSE loc' = [loc EXCEPT ![p].pc = "fu_icon", ![p].ok = FALSE]
    /\ UNCHANGED <<dbVars, cacheVars, mutexVars, siblingCalls, started, staleFor>>

(* lines 467-468 *)
FillHashGet(p) ==
    /\ pcOf(p) = "fu_hash_get"
    /\ IconHashByUserIDCacheMutex' = RUnlock(IconHashByUserIDCacheMutex, p)
    /\ IF loc[p].userModel.ID \in DOMAIN IconHashByUserIDCache
       THEN loc' = [loc EXCEPT ![p].pc = "fu_hash_lock", ![p].ok = TRUE,
                               ![p].hashStr = IconHashByUserIDCache[loc[p].userModel.ID]]
       ELSE loc' = [loc EXCEPT ![p].pc = "fu_icon", ![p].ok = FALSE]
    /\ UNCHANGED <<dbVars, cacheVars, UserByIDCacheMutex, IconHashByUsernameCacheMutex,
                   siblingCalls, started, staleFor>>

(* fillUserResponse without the isFallbackImage test *)
FillAfterHash_AlwaysStore(isFallbackImage) == "fu_hash_lock"

(* lines 486-490: which lock step follows once hashStr is known *)
FillAfterHash(isFallbackImage) ==
    IF ~isFallbackImage THEN "fu_hash_lock" ELSE "fu_user_lock"

(* lines 473-483: the icon row, or the fallback file when there is none *)
FillSelectIcon(p) ==
    /\ pcOf(p) = "fu_icon"
    /\ \E err \in {"none", "select", "readFile"} :
        LET id == loc[p].userModel.ID IN
        IF err = "select" THEN FillFailed(p)
        ELSE IF id \in DOMAIN icons
        THEN /\ loc' = [loc EXCEPT ![p].pc = FillAfterHash(FALSE),
                                   ![p].hashStr = HashDigits(icons[id])]
             /\ UNCHANGED cacheVars
        ELSE IF err = "readFile" THEN FillFailed(p)
        ELSE /\ loc' = [loc EXCEPT ![p].pc = FillAfterHash(TRUE),
                                   ![p].isFallbackImage = TRUE,
                                   ![p].hashStr = HashDigits(FallbackBytes)]
             /\ UNCHANGED cacheVars
    /\ UNCHANGED <<dbVars, mutexVars, siblingCalls, started, staleFor>>

FillHashLock(p) ==
    /\ pcOf(p) = "fu_hash_lock"
    /\ CanLock(IconHashByUserIDCacheMutex)
    /\ IconHashByUserIDCacheMutex' = Lock(IconHashByUserIDCacheMutex, p)
    /\ Goto(p, "fu_hash_put")
    /\ UNCHANGED <<dbVars, cacheVars, UserByIDCacheMutex, IconHashByUsernameCacheMutex,
                   siblingCalls, started, staleFor>>

FillHashPut(p) ==
    /\ pcOf(p) = "fu_hash_put"
    /\ IconHashByUserIDCache' = Put(IconHashByUserIDCache, loc[p].userModel.ID, loc[p].hashStr)
    /\ IconHashByUserIDCacheMutex' = Unlock(IconHashByUserIDCacheMutex, p)
    /\ Goto(p, "fu_user_lock")
    /\ UNCHANGED <<dbVars, UserByIDCache, IconHashByUsernameCache, UserByIDCacheMutex,
                   IconHashByUsernameCacheMutex, siblingCalls, started, staleFor>>

FillUserLock(p) ==
    /\ pcOf(p) = "fu_user_lock"
    /\ CanLock(UserByIDCacheMutex)
    /\ UserByIDCacheMutex' = Lock(UserByIDCacheMutex, p)
    /\ Goto(p, "fu_user_put")
    /\ UNCHANGED <<dbVars, cacheVars, IconHashByUserIDCacheMutex, IconHashByUsernameCacheMutex,
                   siblingCalls, started, staleFor>>

(* lines 492-502 *)
ComposeUser(userModel, themeModel, hashStr) ==
    [ID |-> userModel.ID, Name |-> userModel.Name,
     DisplayName |-> userModel.DisplayName, Description |-> userModel.Description,
     Theme |-> [ID |-> themeModel.ID, DarkMode |-> themeModel.DarkMode],
     IconHash |-> hashStr]

FillUserPut(p) ==
    /\ pcOf(p) = "fu_user_put"
    /\ LET user == ComposeUser(loc[p].userModel, loc[p].themeModel, loc[p].hashStr) IN
        /\ UserByIDCache' = Put(UserByIDCache, loc[p].userModel.ID, user)
        /\ loc' = [loc EXCEPT ![p].pc = AfterFill(loc[p].kind), ![p].user = user]
    /\ UserByIDCacheMutex' = Unlock(UserByIDCacheMutex, p)
    /\ staleFor' = [staleFor EXCEPT ![loc[p].userModel.ID] = {}]
    /\ UNCHANGED <<dbVars, IconHashByUserIDCache, IconHashByUsernameCache,
                   IconHashByUserIDCacheMutex, IconHashByUsernameCacheMutex,
                   siblingCalls, started>>

(* ---------------- getMeHandler ---------------- *)

(* lines 195-209: session check and dbConn.BeginTxx *)
StartGetMe(p) ==
    /\ CanBegin(p)
    /\ \E sess \in SessionInputs, now \in {1}, beginErr \in BOOLEAN :
        LET l == [IdleLoc EXCEPT !.kind = "getMe"] IN
        IF verifyUserSession(sess, now) # 0
        THEN ~beginErr /\ Begin(p, Returned(l, verifyUserSession(sess, now)))
        ELSE IF beginErr
        THEN Begin(p, Returned([l EXCEPT !.userID = sess.userID], 500))
        ELSE Begin(p, TxBegun([l EXCEPT !.userID = sess.userID], "gm_user"))

(* SELECT * FROM users WHERE id = ? *)
GetMeSelectUser(p) ==
    /\ pcOf(p) = "gm_user"
    /\ \E err \in BOOLEAN :
        IF loc[p].userID \notin DOMAIN users THEN ReturnError(p, 404)
        ELSE IF err THEN ReturnError(p, 500)
        ELSE loc' = [loc EXCEPT ![p].pc = "fu_rlock", ![p].userModel = users[loc[p].userID]]
    /\ UNCHANGED <<dbVars, cacheVars, mutexVars, siblingCalls, started, staleFor>>

GetMeCommit(p) ==
    /\ pcOf(p) = "gm_commit"
    /\ \E err \in BOOLEAN :
        IF err THEN ReturnError(p, 500)
        ELSE loc' = [loc EXCEPT ![p] = Returned([loc[p] EXCEPT !.tx = "committed"], 200)]
    /\ UNCHANGED <<dbVars, cacheVars, mutexVars, siblingCalls, started, staleFor>>

(* ---------------- getUserHandler ---------------- *)

(* lines 396-407: session check and dbConn.BeginTxx *)
StartGetUser(p) ==
    /\ CanBegin(p)
    /\ \E sess \in SessionInputs, now \in {1}, username \in LookupNames, beginErr \in BOOLEAN :
        LET l == [IdleLoc EXCEPT !.kind = "getUser", !.username = username] IN
        IF verifyUserSession(sess, now) # 0
        THEN ~beginErr /\ Begin(p, Returned(l, verifyUserSession(sess, now)))
        ELSE IF beginErr THEN Begin(p, Returned(l, 500))
        ELSE Begin(p, TxBegun(l, "gu_user"))

GetUserSelectUser(p) ==
    /\ pcOf(p) = "gu_user"
    /\ \E err \in BOOLEAN :
        IF err THEN ReturnError(p, 500)
        ELSE IF UserByName(loc[p].username).ID = 0 THEN ReturnError(p, 404)
        ELSE loc' = [loc EXCEPT ![p].pc = "fu_rlock",
                                ![p].userModel = UserByName(loc[p].username)]
    /\ UNCHANGED <<dbVars, cacheVars, mutexVars, siblingCalls, started, staleFor>>

GetUserCommit(p) ==
    /\ pcOf(p) = "gu_commit"
    /\ \E err \in BOOLEAN :
        IF err THEN ReturnError(p, 500)
        ELSE loc' = [loc EXCEPT ![p] = Returned([loc[p] EXCEPT !.tx = "committed"], 200)]
    /\ UNCHANGED <<dbVars, cacheVars, mutexVars, siblingCalls, started, staleFor>>

(* ---------------- registerHandler ---------------- *)

(* the reserved name compared in another spelling *)
ReservedName_OtherSpelling(name) == name = "PIPE"

(* line 243 *)
ReservedName(name) == name = "pipe"

(* requests that will still take an id from AUTO_INCREMENT of users *)
PendingInserts == Cardinality({q \in Procs : loc[q].pc = "rg_insert_user"})

(* lines 238-256: body decoding, the reserved name, bcrypt, dbConn.BeginTxx *)
StartRegister(p) ==
    /\ CanBegin(p)
    /\ \E name \in Names, darkMode \in {TRUE}, err \in {"none", "decode", "bcrypt", "begin"} :
        LET l == [IdleLoc EXCEPT !.kind = "register"]
            r == [l EXCEPT !.username = name, !.darkMode = darkMode] IN
        IF err = "decode" THEN Begin(p, Returned(l, 400))
        ELSE IF ReservedName(name) THEN err = "none" /\ Begin(p, Returned(r, 400))
        ELSE IF err # "none" THEN Begin(p, Returned(r, 500))
        ELSE /\ nextUserID + PendingInserts <= MaxUserID
             /\ Begin(p, TxBegun(r, "rg_insert_user"))

(* INSERT INTO users and result.LastInsertId(); name is UNIQUE: the insert *)
(* waits for an open transaction that inserted the same name.             *)
RegisterInsertUser(p) ==
    /\ pcOf(p) = "rg_insert_user"
    /\ \A q \in Procs \ {p} : ~(loc[q].nameLock /\ loc[q].username = loc[p].username)
    /\ \E err \in {"none", "exec", "lastInsertId"} :
        IF err = "exec" \/ UserByName(loc[p].username).ID # 0
        THEN /\ ReturnError(p, 500)
             /\ UNCHANGED nextUserID
        ELSE /\ nextUserID' = nextUserID + 1
             /\ IF err = "lastInsertId" THEN ReturnError(p, 500)
                ELSE loc' = [loc EXCEPT ![p].pc = "rg_insert_theme",
                                        ![p].nameLock = TRUE,
                                        ![p].userID = nextUserID,
                                        ![p].userModel =
                                            [ID |-> nextUserID, Name |-> loc[p].username,
                                             DisplayName |-> "D", Description |-> "d",
                                             HashedPassword |-> "bcrypt"]]
    /\ UNCHANGED <<users, themes, icons, committedIcons, nextThemeID, dnsRecords, cacheVars, mutexVars,
                   siblingCalls, started, staleFor>>

(* INSERT INTO themes *)
RegisterInsertTheme(p) ==
    /\ pcOf(p) = "rg_insert_theme"
    /\ \E err \in BOOLEAN :
        IF err
        THEN /\ ReturnError(p, 500)
             /\ UNCHANGED nextThemeID
        ELSE /\ nextThemeID' = nextThemeID + 1
             /\ loc' = [loc EXCEPT ![p].pc = "rg_dns",
                                   ![p].pendingTheme =
                                       [ID |-> nextThemeID, UserID |-> loc[p].userID,
                                        DarkMode |-> loc[p].darkMode]]
    /\ UNCHANGED <<users, themes, icons, committedIcons, nextUserID, dnsRecords, cacheVars, mutexVars,
                   siblingCalls, started, staleFor>>

(* lines 286-304: the PATCH request to PowerDNS *)
RegisterDNS(p) ==
    /\ pcOf(p) = "rg_dns"
    /\ \E outcome \in {"204", "error", "status"} :
        IF outcome = "204"
        THEN /\ dnsRecords' = dnsRecords \cup {loc[p].username}
             /\ Goto(p, "fu_rlock")
        ELSE /\ ReturnError(p, 500)
             /\ UNCHANGED dnsRecords
    /\ UNCHANGED <<users, themes, icons, committedIcons, nextUserID, nextThemeID, cacheVars, mutexVars,
                   siblingCalls, started, staleFor>>

(* lines 314-316 *)
RegisterCommit(p) ==
    /\ pcOf(p) = "rg_commit"
    /\ \E err \in BOOLEAN :
        IF err
        THEN /\ ReturnError(p, 500)
             /\ UNCHANGED <<users, themes, staleFor>>
        ELSE /\ users' = Put(users, loc[p].userID, loc[p].userModel)
             /\ themes' = Put(themes, loc[p].userID, loc[p].pendingTheme)
             /\ loc' = [loc EXCEPT ![p].pc = "rg_lock", ![p].tx = "committed",
                                   ![p].nameLock = FALSE]
             /\ staleFor' = EntryPredates(p, loc[p].userID)
    /\ UNCHANGED <<icons, committedIcons, nextUserID, nextThemeID, dnsRecords,
                   cacheVars, mutexVars, siblingCalls, started>>

RegisterLock(p) ==
    /\ pcOf(p) = "rg_lock"
    /\ CanLock(UserByIDCacheMutex)
    /\ UserByIDCacheMutex' = Lock(UserByIDCacheMutex, p)
    /\ Goto(p, "rg_del")
    /\ UNCHANGED <<dbVars, cacheVars, IconHashByUserIDCacheMutex, IconHashByUsernameCacheMutex,
                   siblingCalls, started, staleFor>>

(* registerHandler that takes the lock but leaves the entry in the map *)
RegisterDeleteCache_NoDelete(p) ==
    /\ pcOf(p) = "rg_del"
    /\ UserByIDCacheMutex' = Unlock(UserByIDCacheMutex, p)
    /\ Goto(p, "rg_siblings")
    /\ UNCHANGED <<dbVars, cacheVars, IconHashByUserIDCacheMutex, IconHashByUsernameCacheMutex,
                   siblingCalls, started, staleFor>>

RegisterDeleteCache(p) ==
    /\ pcOf(p) = "rg_del"
    /\ UserByIDCache' = Delete(UserByIDCache, loc[p].userID)
    /\ UserByIDCacheMutex' = Unlock(UserByIDCacheMutex, p)
    /\ staleFor' = [staleFor EXCEPT ![loc[p].userID] = {}]
    /\ Goto(p, "rg_siblings")
    /\ UNCHANGED <<dbVars, IconHashByUserIDCache, IconHashByUsernameCache,
                   IconHashByUserIDCacheMutex, IconHashByUsernameCacheMutex,
                   siblingCalls, started>>

(* lines 321-324: both sibling invalidations, then 201 with the user *)
RegisterInvalidateSiblings(p) ==
    /\ pcOf(p) = "rg_siblings"
    /\ siblingCalls' = [siblingCalls EXCEPT ![p] = InvalidateSiblings(@, loc[p].userID)]
    /\ Return(p, 201)
    /\ UNCHANGED <<dbVars, cacheVars, mutexVars, started, staleFor>>

(* a request arrives in slot p *)
Start(p) ==
    \/ StartGetIcon(p)
    \/ StartPostIcon(p)
    \/ StartGetMe(p)
    \/ StartGetUser(p)
    \/ StartRegister(p)

(* the next statement of the request in slot p *)
Continue(p) ==
    \/ GetIconRLock(p)
    \/ GetIconCheck(p)
    \/ GetIconSelectUser(p)
    \/ GetIconSelectIcon(p)
    \/ GetIconLockName(p)
    \/ GetIconPutName(p)
    \/ GetIconLockID(p)
    \/ GetIconPutID(p)
    \/ PostIconDelete(p)
    \/ PostIconInsert(p)
    \/ PostIconCommit(p)
    \/ PostIconLock(p)
    \/ PostIconDeleteCache(p)
    \/ PostIconInvalidateSiblings(p)
    \/ FillRLock(p)
    \/ FillCheck(p)
    \/ FillSelectTheme(p)
    \/ FillHashRLock(p)
    \/ FillHashGet(p)
    \/ FillSelectIcon(p)
    \/ FillHashLock(p)
    \/ FillHashPut(p)
    \/ FillUserLock(p)
    \/ FillUserPut(p)
    \/ GetMeSelectUser(p)
    \/ GetMeCommit(p)
    \/ GetUserSelectUser(p)
    \/ GetUserCommit(p)
    \/ RegisterInsertUser(p)
    \/ RegisterInsertTheme(p)
    \/ RegisterDNS(p)
    \/ RegisterCommit(p)
    \/ RegisterLock(p)
    \/ RegisterDeleteCache(p)
    \/ RegisterInvalidateSiblings(p)

Next == \E p \in Procs : Start(p) \/ Continue(p)

Spec == Init /\ [][Next]_vars

(* every request runs in a goroutine of its own, which the Go scheduler    *)
(* keeps running: a request whose next statement can execute executes it. *)
FairSpec == Spec /\ \A p \in Procs : WF_vars(Continue(p))

(* ---------------- verifyUserSession on its own ---------------- *)

(* the sessions and clock readings verifyUserSession is applied to: a      *)
(* key that is absent carries the zero value                              *)
Times == 0..MaxTime
AuthSessions ==
    {Session(TRUE, FALSE, FALSE, 0, 0)}
    \cup {Session(FALSE, e # MaxTime + 1, u # 0, IF e = MaxTime + 1 THEN 0 ELSE e, u) :
             e \in 0..(MaxTime + 1), u \in 0..MaxUserID}

(* lines 429-451: one call of verifyUserSession; the slot keeps the       *)
(* session, the clock reading and the result                              *)
CallVerifyUserSession(p) ==
    /\ \E sess \in AuthSessions, now \in Times :
        loc' = [loc EXCEPT ![p] = [IdleLoc EXCEPT !.kind = "verify", !.sess = sess, !.now = now,
                                       !.resp = [status |-> verifyUserSession(sess, now),
                                                 message |-> ""]]]
    /\ UNCHANGED <<dbVars, cacheVars, mutexVars, siblingCalls, started, staleFor>>

AuthNext == \E p \in Procs : CallVerifyUserSession(p)

AuthSpec == Init /\ [][AuthNext]_vars

(* ======================= properties ======================= *)

(* the hash fillUserResponse computes from the committed rows of user id *)
CurrentIconHash(id) ==
    IF id \in DOMAIN icons THEN HashDigits(icons[id]) ELSE HashDigits(FallbackBytes)

(* fillUserResponse has returned loc[p].user to a profile read *)
FillReturned(p) ==
    /\ loc[p].pc \in {"gm_commit", "gu_commit"}
    /\ loc[p].kind \in {"getMe", "getUser"}

(* C1: a fillUserResponse that starts after every committed icon replace   *)
(* has finished its invalidation, that misses UserByIDCache, and during    *)
(* which no icon of the user is committed, returns the hash of the         *)
(* committed icon of the user.                                             *)
C1_FreshnessAfterCommit ==
    \A p \in Procs :
        (/\ FillReturned(p)
         /\ loc[p].afterInvalidation
         /\ ~loc[p].hit
         /\ loc[p].user.ID \notin loc[p].committedSince)
        => loc[p].user.IconHash = CurrentIconHash(loc[p].user.ID)

(* C2: a reader that started after the last commit of an icon replace for  *)
(* the user and hits UserByIDCache gets an entry made from the committed   *)
(* state, also between the commit and the delete of the entry.             *)
C2_HitAfterCommitIsCurrent ==
    \A p \in Procs :
        (/\ FillReturned(p)
         /\ loc[p].hit
         /\ loc[p].user.ID \notin loc[p].committedSince)
        => loc[p].user.IconHash = CurrentIconHash(loc[p].user.ID)

(* a registration of user id whose transaction can still commit *)
RegistrationOpen(id) ==
    \E p \in Procs : /\ loc[p].kind = "register"
                     /\ loc[p].tx = "open"
                     /\ loc[p].userID = id

(* C3: UserByIDCache holds no entry for a user ID whose registration did   *)
(* not commit, and every entry carries the committed name and theme.       *)
C3_CacheReflectsCommitted ==
    \A id \in DOMAIN UserByIDCache :
        \/ RegistrationOpen(id)
        \/ /\ id \in DOMAIN users
           /\ UserByIDCache[id].Name = users[id].Name
           /\ UserByIDCache[id].Theme =
                  [ID |-> themes[id].ID, DarkMode |-> themes[id].DarkMode]

(* C4: a step of postIconHandler or registerHandler whose transaction has  *)
(* not committed calls no sibling invalidation and deletes no entry of     *)
(* UserByIDCache; a step of such a postIconHandler leaves UserByIDCache    *)
(* as it is.                                                               *)
C4_InvalidationCommitGated ==
    [][\A p \in Procs :
        (/\ loc[p].pc # "idle"
         /\ loc'[p].pc # loc[p].pc
         /\ loc[p].kind \in {"postIcon", "register"}
         /\ loc[p].tx # "committed")
        => /\ siblingCalls'[p] = siblingCalls[p]
           /\ DOMAIN UserByIDCache \subseteq DOMAIN UserByIDCache'
           /\ (loc[p].kind = "postIcon" => UserByIDCache' = UserByIDCache)]_vars

(* a failed icon replace returned and the user view of before is cached *)
C4_Witness ==
    \E p \in Procs :
        /\ loc[p].pc = "idle"
        /\ loc[p].kind = "postIcon"
        /\ loc[p].tx = "rolledback"
        /\ loc[p].resp.status = 500
        /\ siblingCalls[p] = <<>>
        /\ loc[p].userID \in DOMAIN UserByIDCache

(* C5: for a user without icon row no icon-hash cache has an entry, under  *)
(* the user ID or under the name, fillUserResponse returns the hash of the *)
(* fallback bytes, and no cache entry is the hash of the fallback bytes.   *)
C5_FallbackNeverCached ==
    /\ \A id \in UserIDs :
        id \notin DOMAIN icons =>
            /\ id \notin DOMAIN IconHashByUserIDCache
            /\ \A p \in Procs :
                (FillReturned(p) /\ loc[p].user.ID = id)
                => loc[p].user.IconHash = HashDigits(FallbackBytes)
    /\ \A name \in DOMAIN IconHashByUsernameCache :
        /\ UserByName(name).ID \in DOMAIN icons
        /\ IconHashByUsernameCache[name] # HashDigits(FallbackBytes)
    /\ \A id \in DOMAIN IconHashByUserIDCache :
        IconHashByUserIDCache[id] # HashDigits(FallbackBytes)

(* fillUserResponse took the fallback file for a user without icon *)
C5_Witness ==
    \E p \in Procs :
        /\ FillReturned(p)
        /\ ~loc[p].hit
        /\ loc[p].isFallbackImage
        /\ loc[p].user.IconHash = HashDigits(FallbackBytes)
        /\ loc[p].user.ID \notin DOMAIN IconHashByUserIDCache

(* a getIconHandler has written the hash under the name, not yet under the ID *)
BetweenCacheWrites(id) ==
    \E p \in Procs : /\ loc[p].pc \in {"gi_lock_id", "gi_put_id"}
                     /\ loc[p].userModel.ID = id

(* C6: when both icon-hash caches have an entry for a user and no handler  *)
(* is between its two cache writes, the two entries are the same hash.     *)
C6_IconHashCachesAgree ==
    \A id \in DOMAIN users :
        (/\ id \in DOMAIN IconHashByUserIDCache
         /\ users[id].Name \in DOMAIN IconHashByUsernameCache
         /\ ~BetweenCacheWrites(id))
        => IconHashByUserIDCache[id] = IconHashByUsernameCache[users[id].Name]

(* C7: a getIconHandler called after the last commit of an icon replace    *)
(* for the user answers 304 Not Modified only when the hash in             *)
(* If-None-Match is the hash of the committed icon of the user.            *)
C7_NotModifiedIsCurrent ==
    [][\A p \in Procs :
        (/\ loc[p].pc = "gi_check"
         /\ loc'[p].pc = "idle"
         /\ loc'[p].resp.status = 304
         /\ UserByName(loc[p].username).ID \notin loc[p].committedSince)
        => TrimQuotes(loc[p].ifNoneMatch)
               = CurrentIconHash(UserByName(loc[p].username).ID)]_vars

(* C8: the cache check of fillUserResponse on a hit returns the entry of   *)
(* UserByIDCache, goes on without a store read and leaves the database and *)
(* the three caches as they are.                                           *)
C8_HitIsIdempotent ==
    [][\A p \in Procs :
        (/\ loc[p].pc = "fu_check"
         /\ loc'[p].pc # loc[p].pc
         /\ loc[p].userModel.ID \in DOMAIN UserByIDCache)
        => /\ loc'[p].pc = AfterFill(loc[p].kind)
           /\ loc'[p].user = UserByIDCache[loc[p].userModel.ID]
           /\ cacheVars' = cacheVars
           /\ dbVars' = dbVars]_vars

(* a profile read got its user from a hit *)
C8_Witness ==
    \E p \in Procs :
        /\ FillReturned(p)
        /\ loc[p].hit
        /\ loc[p].user.ID \in DOMAIN UserByIDCache
        /\ loc[p].user = UserByIDCache[loc[p].user.ID]

(* C9: a registration with the name "pipe" has returned 400 without a      *)
(* transaction, a user ID or a sibling call, and the name is in no table,  *)
(* no DNS record and no cache.                                            *)
C9_PipeRejected ==
    /\ \A p \in Procs :
        (loc[p].kind = "register" /\ loc[p].username = "pipe")
        => /\ loc[p].pc = "idle"
           /\ loc[p].resp.status = 400
           /\ loc[p].tx = "none"
           /\ loc[p].userID = 0
           /\ siblingCalls[p] = <<>>
    /\ UserByName("pipe").ID = 0
    /\ "pipe" \notin dnsRecords
    /\ "pipe" \notin DOMAIN IconHashByUsernameCache
    /\ \A id \in DOMAIN UserByIDCache : UserByIDCache[id].Name # "pipe"

(* a registration with the name "pipe" was rejected *)
C9_Witness ==
    \E p \in Procs :
        /\ loc[p].kind = "register"
        /\ loc[p].username = "pipe"
        /\ loc[p].resp.status = 400

(* C10: when registerHandler or postIconHandler has returned 201, the      *)
(* transaction is committed, UserByIDCache holds no entry for the user ID  *)
(* that was written before the commit, and the request has called the two  *)
(* sibling invalidations with that ID.                                     *)
C10_InvalidationApplied ==
    \A p \in Procs :
        (/\ loc[p].pc = "idle"
         /\ loc[p].kind \in {"register", "postIcon"}
         /\ loc[p].resp.status = 201)
        => /\ loc[p].tx = "committed"
           /\ p \notin staleFor[loc[p].userID]
           /\ siblingCalls[p] = << <<"livestream", loc[p].userID>>,
                                   <<"livecomment", loc[p].userID>> >>

(* a registration returned 201 and the user is committed *)
C10_Witness ==
    \E p \in Procs :
        /\ loc[p].pc = "idle"
        /\ loc[p].kind = "register"
        /\ loc[p].resp.status = 201
        /\ loc[p].userID \in DOMAIN users
        /\ loc[p].userID \notin DOMAIN UserByIDCache

(* the name under which IconHashByUsernameCache files the user id *)
NameOf(id) == IF id \in DOMAIN users THEN users[id].Name ELSE ""

(* C11: when postIconHandler or registerHandler invalidates a user, the   *)
(* step that deletes from the caches leaves no entry for that user in any *)
(* of UserByIDCache, IconHashByUserIDCache and IconHashByUsernameCache.   *)
C11_InvalidateClearsAllCaches ==
    [][\A p \in Procs :
        (loc[p].pc \in {"pi_del", "rg_del"} /\ loc'[p].pc # loc[p].pc)
        => /\ loc[p].userID \notin DOMAIN UserByIDCache'
           /\ loc[p].userID \notin DOMAIN IconHashByUserIDCache'
           /\ NameOf(loc[p].userID) \notin DOMAIN IconHashByUsernameCache']_vars

(* C12: verifyUserSession returns nil exactly when session.Get succeeded, *)
(* the session carries EXPIRES and an int64 USERID, and the clock is not  *)
(* past the expiry; a session expiring in the current second passes.      *)
C12_AcceptsExactlyValidSessions ==
    \A p \in Procs :
        loc[p].kind = "verify"
        => ((loc[p].resp.status = 0)
            <=> (/\ ~loc[p].sess.getErr
                 /\ loc[p].sess.hasExpires
                 /\ loc[p].sess.hasUserID
                 /\ loc[p].now <= loc[p].sess.expires))

(* one session accepted in the second it expires, and the same session    *)
(* rejected one second later                                              *)
C12_Witness ==
    /\ loc[1].kind = "verify" /\ loc[2].kind = "verify"
    /\ loc[1].sess = loc[2].sess
    /\ loc[1].sess.hasExpires /\ loc[1].sess.hasUserID /\ ~loc[1].sess.getErr
    /\ loc[1].now = loc[1].sess.expires
    /\ loc[2].now = loc[2].sess.expires + 1
    /\ loc[1].resp.status = 0
    /\ loc[2].resp.status # 0

(* C13: the rejections of verifyUserSession tell the causes apart: a      *)
(* session that cannot be obtained is rejected as Unauthorized, a session *)
(* without EXPIRES or without USERID as Forbidden, and an expired session *)
(* with a status of its own; no call changes a cache.                     *)
C13_RejectionsDistinguishable ==
    /\ cacheVars = <<EmptyMap, EmptyMap, EmptyMap>>
    /\ \A p \in Procs :
        loc[p].kind = "verify"
        => LET sess == loc[p].sess
               status == loc[p].resp.status IN
           /\ sess.getErr => status = StatusUnauthorized
           /\ (~sess.getErr /\ (~sess.hasExpires \/ ~sess.hasUserID))
              => status = StatusForbidden
           /\ (~sess.getErr /\ sess.hasExpires /\ sess.hasUserID /\ loc[p].now > sess.expires)
              => status \notin {0, StatusUnauthorized, StatusForbidden}

(* the steps of a writer after its commit: the cache delete under its lock *)
(* and the sibling invalidations                                          *)
InvalidationSteps == {"pi_lock", "pi_del", "pi_siblings", "rg_lock", "rg_del", "rg_siblings"}

(* C14: no step of the post-commit invalidation of postIconHandler or     *)
(* registerHandler changes IconHashByUserIDCache or                       *)
(* IconHashByUsernameCache; of UserByIDCache it removes at most the entry *)
(* of the user.                                                           *)
C14_InvalidationKeepsIconHashes ==
    [][\A p \in Procs :
        (loc[p].pc \in InvalidationSteps /\ loc'[p].pc # loc[p].pc)
        => /\ IconHashByUserIDCache' = IconHashByUserIDCache
           /\ IconHashByUsernameCache' = IconHashByUsernameCache
           /\ UserByIDCache' \in {UserByIDCache, Delete(UserByIDCache, loc[p].userID)}]_vars

(* an icon replace has deleted from UserByIDCache while both icon-hash    *)
(* maps hold an entry of the user                                         *)
C14_Witness ==
    \E p \in Procs :
        /\ loc[p].pc = "pi_siblings"
        /\ loc[p].userID \in DOMAIN IconHashByUserIDCache
        /\ NameOf(loc[p].userID) \in DOMAIN IconHashByUsernameCache

(* the steps of fillUserResponse up to the icon read, lines 454-484 *)
FillReadSteps == {"fu_rlock", "fu_check", "fu_theme", "fu_hash_rlock", "fu_hash_get", "fu_icon"}

(* C15: when fillUserResponse cannot read the theme row, the icon row or  *)
(* the fallback file, it returns the error and no user, and neither that  *)
(* step nor any step of the call before it has changed one of the three   *)
(* caches.                                                                *)
C15_FillFailureLeavesCaches ==
    [][\A p \in Procs :
        (loc[p].pc \in FillReadSteps /\ loc'[p].pc # loc[p].pc)
        => /\ cacheVars' = cacheVars
           /\ loc'[p].pc = "idle"
              => /\ loc[p].pc \in {"fu_theme", "fu_icon"}
                 /\ loc'[p].resp = [status |-> 500, message |-> "failed to fill user"]
                 /\ loc'[p].user = ZeroUser
                 /\ loc[p].user = ZeroUser]_vars

(* a failed fillUserResponse has ended a request of a user whose icon     *)
(* hash was cached before: the caches still hold that entry and no user   *)
C15_Witness ==
    \E p \in Procs :
        /\ loc[p].pc = "idle"
        /\ loc[p].resp = [status |-> 500, message |-> "failed to fill user"]
        /\ loc[p].tx = "rolledback"
        /\ IconHashByUserIDCache # EmptyMap
        /\ UserByIDCache = EmptyMap

(* the three cache locks by name, and those request p holds *)
Mutexes ==
    [UserByIDCacheMutex |-> UserByIDCacheMutex,
     IconHashByUserIDCacheMutex |-> IconHashByUserIDCacheMutex,
     IconHashByUsernameCacheMutex |-> IconHashByUsernameCacheMutex]

HeldBy(p) == {m \in DOMAIN Mutexes : Mutexes[m].w = p \/ p \in Mutexes[m].r}

(* the positions at which the next statement is a database call, a file   *)
(* read, the DNS call or a sibling invalidation                           *)
StoreSteps ==
    {"gi_user", "gi_icon", "pi_delete", "pi_insert", "pi_commit", "pi_siblings",
     "fu_theme", "fu_icon", "gm_user", "gm_commit", "gu_user", "gu_commit",
     "rg_insert_user", "rg_insert_theme", "rg_dns", "rg_commit", "rg_siblings"}

(* C16: a request holds a cache lock only at the one map operation the    *)
(* lock was taken for -- read lock at the get, write lock at the put or   *)
(* delete of that same map -- and holds none where its next statement is  *)
(* a database call, a file read or an external call, nor when idle.       *)
C16_LockOnlyAroundMapOperation ==
    \A p \in Procs :
        /\ p \in UserByIDCacheMutex.r => loc[p].pc = "fu_check"
        /\ UserByIDCacheMutex.w = p => loc[p].pc \in {"pi_del", "rg_del", "fu_user_put"}
        /\ p \in IconHashByUserIDCacheMutex.r => loc[p].pc = "fu_hash_get"
        /\ IconHashByUserIDCacheMutex.w = p => loc[p].pc \in {"gi_put_id", "fu_hash_put"}
        /\ p \in IconHashByUsernameCacheMutex.r => loc[p].pc = "gi_check"
        /\ IconHashByUsernameCacheMutex.w = p => loc[p].pc = "gi_put_name"
        /\ loc[p].pc \in StoreSteps \cup {"idle"} => HeldBy(p) = {}

(* one request holds a cache lock while another is inside a database call *)
C16_Witness ==
    \E p, q \in Procs :
        /\ HeldBy(p) # {}
        /\ loc[q].pc \in StoreSteps
        /\ loc[q].tx = "open"

(* C17: no request holds two cache locks at once, a request that has      *)
(* returned holds none, and when every request keeps being scheduled each *)
(* started request returns.                                               *)
C17_NoDeadlock ==
    /\ [](\A p \in Procs :
            /\ Cardinality(HeldBy(p)) <= 1
            /\ loc[p].pc = "idle" => HeldBy(p) = {})
    /\ \A p \in Procs : (loc[p].pc # "idle") ~> (loc[p].pc = "idle")

(* both slots run a request and one waits for a lock the other holds *)
C17_Witness ==
    \E p, q \in Procs :
        /\ UserByIDCacheMutex.w = p
        /\ loc[q].pc \in {"fu_rlock", "fu_user_lock", "pi_lock", "rg_lock"}

(* the positions of getIconHandler before dbConn.BeginTxx *)
BeforeBegin == {"gi_rlock", "gi_check"}

(* C18: a request has one transaction; it is open from BeginTxx up to the *)
(* commit, and when the handler has returned it is committed or rolled    *)
(* back and holds no row lock -- committed after the success responses of *)
(* the handlers that commit, rolled back after every error return and     *)
(* after getIconHandler, which never commits.                             *)
C18_TransactionEndsWithHandler ==
    \A p \in Procs :
        /\ loc[p].pc = "idle"
           => /\ loc[p].tx \in {"none", "committed", "rolledback"}
              /\ ~loc[p].iconLock /\ ~loc[p].nameLock
              /\ loc[p].resp.status \in {200, 201} /\ loc[p].kind # "getIcon"
                 => loc[p].tx = "committed"
        /\ loc[p].pc \in InvalidationSteps => loc[p].tx = "committed"
        /\ loc[p].pc \notin InvalidationSteps \cup BeforeBegin \cup {"idle"}
           => loc[p].tx = "open"

(* one request has returned after its commit, another after an error that *)
(* came when its transaction had written                                  *)
C18_Witness ==
    \E p, q \in Procs :
        /\ loc[p].pc = "idle" /\ loc[q].pc = "idle"
        /\ loc[p].tx = "committed" /\ loc[p].resp.status = 201
        /\ loc[q].tx = "rolledback" /\ loc[q].kind = "register" /\ loc[q].userID # 0

(* the hashes of the icons ever committed for user id *)
CommittedHashes(id) == {HashDigits(image) : image \in committedIcons[id]}

(* C20: every entry of IconHashByUserIDCache is the hash of an image that *)
(* a committed icons row of that user held at some time, and every entry  *)
(* of IconHashByUsernameCache is such a hash for the user of that name;   *)
(* the hash of the fallback file and of an uncommitted upload never are.  *)
C20_IconHashesWereCommitted ==
    /\ \A id \in DOMAIN IconHashByUserIDCache :
        /\ id \in DOMAIN users
        /\ IconHashByUserIDCache[id] \in CommittedHashes(id)
    /\ \A name \in DOMAIN IconHashByUsernameCache :
        /\ UserByName(name).ID # 0
        /\ IconHashByUsernameCache[name] \in CommittedHashes(UserByName(name).ID)

(* both maps hold the hash of an image of the user that a later replace   *)
(* has removed from the store, while another upload is not yet committed  *)
C20_Witness ==
    \E id \in DOMAIN IconHashByUserIDCache :
        /\ IconHashByUserIDCache[id] # CurrentIconHash(id)
        /\ users[id].Name \in DOMAIN IconHashByUsernameCache
        /\ Cardinality(committedIcons[id]) = 2
        /\ \E p \in Procs : loc[p].pc = "pi_commit" /\ loc[p].userID = id
====
